---- MODULE Spec2Model ----
(***************************************************************************)
(* Model of the md-to-qdrant-importer ingestion pipeline:                  *)
(*   import_processor.py   ImportProcessor.process_file / process_directory*)
(*   qdrant_handler.py     QdrantHandler (the module import_processor.py   *)
(*                         line 24 imports)                                *)
(*   qdrant_handler_fixed.py  QdrantHandler ("FIXED VERSION", the API      *)
(*                         process_file is written against)                *)
(*   npc_extractor.py      NPCExtractor candidate detection and extraction *)
(*   text_processor.py     TextChunker.create_chunks                       *)
(*                                                                         *)
(* Strings are sequences of one-character strings, so that lower(), the    *)
(* substring test and Path.name are computed and not assumed.  A text is   *)
(* abstracted to the set of stat-block patterns re.search finds in it.     *)
(* The vector store, the embedding provider, the file system and the       *)
(* extraction service are the environment: each call to them draws its     *)
(* outcome nondeterministically.                                           *)
(***************************************************************************)
EXTENDS Naturals, Integers, Sequences, FiniteSets, TLC

VARIABLES
    handler,                \* module bound to the name qdrant_handler
    enable_npc_extraction,  \* config.enable_npc_extraction
    store,                  \* vector store: collection -> set of points
    nextId,                 \* source of fresh point ids (uuid4)
    calls,                  \* number of process_file calls made so far
    last,                   \* the last process_file call: arguments, result, calls made
    files,                  \* process_directory: the enumerated files
    dirArgs,                \* process_directory: extract_npcs / skip_existing
    results,                \* process_directory: the results list
    dirPc,                  \* process_directory: "idle" | "loop" | "returned"
    dChunks,                \* _identify_npc_chunks: argument
    dGroups,                \* _identify_npc_chunks: return value
    dPc,                    \* _identify_npc_chunks: "input" | "done"
    xSvc,                   \* _extract_npc_from_text: what the service does
    xThreshold,             \* _extract_npc_from_text: self.confidence_threshold
    xReturn,                \* _extract_npc_from_text: raised / list returned
    xPc,                    \* _extract_npc_from_text: "input" | "done"
    cText,                  \* chunk_text: the argument text
    cSize,                  \* chunk_text: self.chunk_size
    cOverlap,               \* chunk_text: self.overlap
    cStart,                 \* chunk_text: the cursor start
    cPrev,                  \* chunk_text: start when the last iteration began
    cEnd,                   \* chunk_text: end as the last iteration cut it
    cChunks,                \* chunk_text: the list chunks
    cCovered,               \* chunk_text: the offsets the windows cut so far contain
    cPc,                    \* chunk_text: "idle" | "loop" | "done"
    cliConfig,              \* cli main: the Config that get_config loaded
    cliArgs,                \* cli main: the parsed arguments and the input path
    cliTrace,               \* cli main: the calls made into the pipeline so far
    cliExit,                \* cli main: the exit status (-1 while running)
    cliPc,                  \* cli main: "idle" | "start" | "valid" | "ready" | "processed" | "exited"
    rArgs,                  \* two importers: the path and flag both calls are given
    rPc,                    \* two importers: each call's position in process_file
    rFound,                 \* two importers: what each call's existence check returned
    rEarly,                 \* two importers: the check ran before any call went past it
    rLast,                  \* two importers: each finished call, as in last
    nRaw,                   \* process_file: the content read from the file
    nText,                  \* process_file: the text handed to create_chunks
    nPc,                    \* process_file text flow: "idle" | "read" | "chunked"
    gIsProcessing,          \* gui: self.is_processing
    gImportButton,          \* gui: state of self.import_button
    gStopButton,            \* gui: state of self.stop_button
    gInputDir,              \* gui: what self.input_dir_var names
    gStatus,                \* gui: text of self.config_status_label
    gThreads,               \* gui: number of _run_import threads running
    gPending                \* gui: _import_finished callbacks queued by root.after

vars == <<handler, enable_npc_extraction, store, nextId, calls, last,
          files, dirArgs, results, dirPc, dChunks, dGroups, dPc,
          xSvc, xThreshold, xReturn, xPc,
          cText, cSize, cOverlap, cStart, cPrev, cEnd, cChunks, cCovered, cPc,
          cliConfig, cliArgs, cliTrace, cliExit, cliPc,
          rArgs, rPc, rFound, rEarly, rLast, nRaw, nText, nPc,
          gIsProcessing, gImportButton, gStopButton, gInputDir, gStatus,
          gThreads, gPending>>

mainVars == <<handler, enable_npc_extraction, store, nextId, calls, last>>
dirVars == <<files, dirArgs, results, dirPc>>
detectVars == <<dChunks, dGroups, dPc>>
extractVars == <<xSvc, xThreshold, xReturn, xPc>>
chunkVars == <<cText, cSize, cOverlap, cStart, cPrev, cEnd, cChunks, cCovered, cPc>>
cliVars == <<cliConfig, cliArgs, cliTrace, cliExit, cliPc>>
raceVars == <<rArgs, rPc, rFound, rEarly, rLast>>
normVars == <<nRaw, nText, nPc>>
guiVars == <<gIsProcessing, gImportButton, gStopButton, gInputDir, gStatus,
             gThreads, gPending>>
lateVars == <<raceVars, normVars, guiVars>>
unitVars == <<extractVars, chunkVars, cliVars, lateVars>>

(***************************************************************************)
(* Bounds                                                                  *)
(***************************************************************************)
MaxCalls == 2
MaxChunks == 1
MaxNpcs == 1
MaxFiles == 2
MaxDetectChunks == 4
MaxPat == 2
MaxEntries == 2
MaxLen == 5
MaxChunkSize == 4

(***************************************************************************)
(* Strings                                                                 *)
(***************************************************************************)
UpperAlpha == <<"A","B","C","D","E","F","G","H","I","J","K","L","M","N","O","P","Q","R","S","T","U","V","W","X","Y","Z">>
LowerAlpha == <<"a","b","c","d","e","f","g","h","i","j","k","l","m","n","o","p","q","r","s","t","u","v","w","x","y","z">>

\* str.lower() on one character
LowerChar(c) ==
    IF \E i \in 1..Len(UpperAlpha) : UpperAlpha[i] = c
    THEN LowerAlpha[CHOOSE i \in 1..Len(UpperAlpha) : UpperAlpha[i] = c]
    ELSE c

\* str.lower()
Lower(s) == [i \in 1..Len(s) |-> LowerChar(s[i])]

\* needle in hay
Contains(hay, needle) ==
    \E i \in 1..(Len(hay) + 1) :
        /\ i + Len(needle) - 1 <= Len(hay)
        /\ SubSeq(hay, i, i + Len(needle) - 1) = needle

\* Path.name: the component after the last "/"
PathName(p) ==
    LET seps == {i \in 1..Len(p) : p[i] = "/"}
        lastSep == IF seps = {} THEN 0 ELSE CHOOSE i \in seps : \A j \in seps : j <= i
    IN SubSeq(p, lastSep + 1, Len(p))

CoreRulebook == <<"d","o","c","s","/","C","o","r","e"," ","R","u","l","e","b","o","o","k",".","m","d">>
SessionNotes == <<"d","o","c","s","/","s","e","s","s","i","o","n","-","a","d","v","e","n","t","u","r","e","-","n","o","t","e","s",".","m","d">>
CrimsonThrone == <<"d","o","c","s","/","C","u","r","s","e"," ","o","f"," ","t","h","e"," ","C","r","i","m","s","o","n"," ","T","h","r","o","n","e"," ","A","d","v","e","n","t","u","r","e"," ","P","a","t","h",".","m","d">>
AdventureDirRulebook == <<"a","d","v","e","n","t","u","r","e","/","C","o","r","e"," ","R","u","l","e","b","o","o","k",".","m","d">>

\* the documents the model ingests
Paths == {CoreRulebook, SessionNotes, CrimsonThrone, AdventureDirRulebook}

Absent == <<>>

(***************************************************************************)
(* config.py: collection names                                             *)
(***************************************************************************)
qdrant_collection_npcs == "game_npcs"
qdrant_collection_rulebooks == "game_rulebooks"
qdrant_collection_adventurepaths == "game_adventurepaths"

Collections == {qdrant_collection_npcs, qdrant_collection_rulebooks,
                qdrant_collection_adventurepaths}

(***************************************************************************)
(* The two QdrantHandler modules                                           *)
(***************************************************************************)
QdrantHandlerPy == "qdrant_handler"
QdrantHandlerFixedPy == "qdrant_handler_fixed"
Handlers == {QdrantHandlerPy, QdrantHandlerFixedPy}

\* qdrant_handler_fixed.py QdrantHandler.is_adventure_path
is_adventure_path(p) ==
    Contains(Lower(PathName(p)), <<"a","d","v","e","n","t","u","r","e">>)

\* qdrant_handler_fixed.py QdrantHandler.determine_collection
determine_collection(p) ==
    IF is_adventure_path(p)
    THEN qdrant_collection_adventurepaths
    ELSE qdrant_collection_rulebooks

\* qdrant_handler.py QdrantHandler.determine_collection(file_path, metadata)
determine_collection_orig(p) ==
    LET filename_lower == Lower(PathName(p))
    IN IF \/ Contains(filename_lower, <<"a","d","v","e","n","t","u","r","e"," ","p","a","t","h">>)
          \/ Contains(filename_lower, <<"a","d","v","e","n","t","u","r","e","p","a","t","h">>)
       THEN qdrant_collection_adventurepaths
       ELSE qdrant_collection_rulebooks

\* The three functions above tabulated over Paths, computed once.
IsAdventurePath == [p \in Paths |-> is_adventure_path(p)]
DetermineCollection == [p \in Paths |-> determine_collection(p)]
DetermineCollectionOrig == [p \in Paths |-> determine_collection_orig(p)]

(***************************************************************************)
(* npc_extractor.py: candidate detection                                   *)
(***************************************************************************)
NumPatterns == 10
MinScore == 2
MaxIndexStep == 1

\* a Python str value; the text is the set of npc_patterns that match it
Str(t) == [type |-> "str", text |-> t]

\* the inner loop of _identify_npc_chunks: the number of npc_patterns found
Score(chunk) == Cardinality(chunk.text \cap (1..NumPatterns))

\* the threshold test taking a single pattern match for a stat block
Qualifies_AnyMatch(chunk) == Score(chunk) >= 1

\* "if score >= 2"
Qualifies(chunk) == Score(chunk) >= MinScore

\* potential_chunks: the 0-based indices of the qualifying chunks, ascending
RECURSIVE PotentialFrom(_, _)
PotentialFrom(chunks, i) ==
    IF i > Len(chunks) THEN <<>>
    ELSE (IF Qualifies(chunks[i]) THEN <<i - 1>> ELSE <<>>)
         \o PotentialFrom(chunks, i + 1)

potential_chunks(chunks) == PotentialFrom(chunks, 1)

\* "if i - current_group[-1] <= 1"
SameGroup(i, prev) == i - prev <= MaxIndexStep

\* the grouping loop without the append that follows it: the group still
\* open when the loop ends is lost
RECURSIVE GroupLoop_DropsLast(_, _, _)
GroupLoop_DropsLast(rest, current_group, npc_chunk_groups) ==
    IF rest = <<>> THEN npc_chunk_groups
    ELSE LET i == Head(rest)
         IN IF SameGroup(i, current_group[Len(current_group)])
            THEN GroupLoop_DropsLast(Tail(rest), Append(current_group, i), npc_chunk_groups)
            ELSE GroupLoop_DropsLast(Tail(rest), <<i>>, Append(npc_chunk_groups, current_group))

\* the grouping loop of _identify_npc_chunks
RECURSIVE GroupLoop(_, _, _)
GroupLoop(rest, current_group, npc_chunk_groups) ==
    IF rest = <<>> THEN Append(npc_chunk_groups, current_group)
    ELSE LET i == Head(rest)
         IN IF SameGroup(i, current_group[Len(current_group)])
            THEN GroupLoop(Tail(rest), Append(current_group, i), npc_chunk_groups)
            ELSE GroupLoop(Tail(rest), <<i>>, Append(npc_chunk_groups, current_group))

\* re.search(pattern, chunk) raises TypeError unless chunk is a str
ReSearchRaises(chunk) == chunk.type # "str"

\* NPCExtractor._identify_npc_chunks
identify_npc_chunks(chunks) ==
    IF \E i \in 1..Len(chunks) : ReSearchRaises(chunks[i])
    THEN [raised |-> TRUE, groups |-> <<>>]
    ELSE LET potential == potential_chunks(chunks)
         IN [raised |-> FALSE,
             groups |-> IF potential = <<>> THEN <<>>
                        ELSE GroupLoop(Tail(potential), <<Head(potential)>>, <<>>)]

(***************************************************************************)
(* npc_extractor.py: extraction                                            *)
(***************************************************************************)
\* Confidence scores and the threshold are decimal fractions; the model
\* keeps them in tenths (7 is 0.7), which preserves the order "<" tests.
\* config.py line 57: NPC_CONFIDENCE_THRESHOLD defaults to '0.7'
npc_confidence_threshold == 7

\* line 260: npc_dict.get('confidence_score', 0.8)
DefaultConfidence == 8

\* the value found under 'confidence_score' in an entry of the response: no
\* such key, JSON null, or a number
NoScore == [t |-> "absent", v |-> 0]
NullScore == [t |-> "null", v |-> 0]
Score10(x) == [t |-> "num", v |-> x]

\* an entry of the response's list: a JSON object (a dict, with its name and
\* its confidence_score) or any other JSON value (a string, a number, null)
NpcDict(name, conf) == [obj |-> TRUE, name |-> name, conf |-> conf]
NotADict(name) == [obj |-> FALSE, name |-> name, conf |-> NoScore]

\* what the extraction service does when called (lines 232-244): the call
\* raises; the content is not JSON (or is None); or json.loads gives a value
\* of one of the shapes lines 247-254 tell apart: a dict with 'npcs'
\* ("wrapper"; "wrapper_null" when result['npcs'] is null), a list, a dict
\* with 'name' ("single"), anything else ("other")
TransportError == [kind |-> "transport_error", shape |-> "other", entries |-> <<>>]
NotJson == [kind |-> "not_json", shape |-> "other", entries |-> <<>>]
Json(shape, entries) == [kind |-> "json", shape |-> shape, entries |-> entries]

\* lines 246-254: npc_list; isNone when result['npcs'] is null
npc_list(result) ==
    CASE result.shape = "wrapper" -> [isNone |-> FALSE, items |-> result.entries]
      [] result.shape = "wrapper_null" -> [isNone |-> TRUE, items |-> <<>>]
      [] result.shape = "list" -> [isNone |-> FALSE, items |-> result.entries]
      [] result.shape = "single" -> [isNone |-> FALSE, items |-> result.entries]
      [] OTHER -> [isNone |-> FALSE, items |-> <<>>]

\* line 260: confidence = npc_dict.get('confidence_score', 0.8); a key that
\* is present with the value null gives None, not the default
confidence(npc_dict) ==
    IF npc_dict.conf.t = "absent" THEN Score10(DefaultConfidence) ELSE npc_dict.conf

\* line 261: "if confidence < self.confidence_threshold"
BelowThreshold(c, threshold) == c.v < threshold

\* lines 265-294: the NPCData built for an accepted entry
NPCData(npc_dict, c) == [name |-> npc_dict.name, confidence_score |-> c.v]

\* lines 257-296: the conversion loop over items[i..]; exc names the
\* exception that ended it ("None" when it ran to the end)
RECURSIVE ConvertLoop(_, _, _, _)
ConvertLoop(items, i, npcs, threshold) ==
    IF i > Len(items) THEN [exc |-> "None", npcs |-> npcs]
    ELSE LET npc_dict == items[i]
         IN IF ~npc_dict.obj
            THEN [exc |-> "AttributeError", npcs |-> npcs]
            ELSE LET c == confidence(npc_dict)
                 IN IF c.t # "num"
                    THEN [exc |-> "TypeError", npcs |-> npcs]
                    ELSE IF BelowThreshold(c, threshold)
                         THEN ConvertLoop(items, i + 1, npcs, threshold)
                         ELSE ConvertLoop(items, i + 1,
                                          Append(npcs, NPCData(npc_dict, c)),
                                          threshold)

\* lines 232-298: the body of the try statement
TryBody(svc, threshold) ==
    CASE svc.kind = "transport_error" -> [exc |-> "APIError", npcs |-> <<>>]
      [] svc.kind = "not_json" -> [exc |-> "JSONDecodeError", npcs |-> <<>>]
      [] OTHER ->
            LET l == npc_list(svc)
            IN IF l.isNone
               THEN [exc |-> "TypeError", npcs |-> <<>>]
               ELSE ConvertLoop(l.items, 1, <<>>, threshold)

\* the function with an except clause that lets the exception through
extract_npc_from_text_Reraise(svc, threshold) ==
    LET body == TryBody(svc, threshold)
    IN [raised |-> body.exc # "None", npcs |-> body.npcs]

\* NPCExtractor._extract_npc_from_text: lines 231-302, "except Exception as
\* e: ... return []"
extract_npc_from_text(svc, threshold) ==
    LET body == TryBody(svc, threshold)
    IN IF body.exc # "None"
       THEN [raised |-> FALSE, npcs |-> <<>>]
       ELSE [raised |-> FALSE, npcs |-> body.npcs]

\* the service outcomes process_file is run against: a failed call, or a
\* response wrapping k entries that carry no confidence_score
NoResponse == TransportError
Responses ==
    {NoResponse}
    \cup { Json("wrapper", [i \in 1..k |-> NpcDict(i, NoScore)]) : k \in 0..MaxNpcs }

\* NPCExtractor.extract_npcs_from_chunks; every window of a call meets the
\* same service outcome, and npcs is the length of the list returned
extract_npcs_from_chunks(chunks, svc) ==
    LET npc_chunks == identify_npc_chunks(chunks)
    IN IF npc_chunks.raised
       THEN [raised |-> TRUE, npcs |-> 0, service_calls |-> 0]
       ELSE [raised |-> FALSE,
             npcs |-> Len(npc_chunks.groups)
                      * Len(extract_npc_from_text(svc, npc_confidence_threshold).npcs),
             service_calls |-> Len(npc_chunks.groups)]

\* the attributes of the NPCData dataclass
NPCDataFields == {"name", "description", "level", "hit_points", "armor_class",
                  "strength", "dexterity", "constitution", "intelligence",
                  "wisdom", "charisma", "skills", "abilities", "equipment",
                  "attacks", "damage_resistances", "damage_immunities",
                  "condition_immunities", "challenge_rating", "experience_points",
                  "alignment", "size", "creature_type", "force_sensitive",
                  "force_points", "dark_side_points", "character_points",
                  "source_file", "source_page", "canonical", "game_system",
                  "confidence_score", "raw_text"}

(***************************************************************************)
(* text_processor.py: chunks                                               *)
(***************************************************************************)
NoStats == {}
StatBlock == {1, 2}

\* the texts TextChunker.chunk_text cuts a file's content into
DocContents ==
    UNION { [1..n -> {NoStats, StatBlock}] : n \in 0..MaxChunks }

\* TextChunker.create_chunks(text, metadata={"file_path": str(file_path)}):
\* the metadata is spread into the chunk dict, which has no "metadata" key
create_chunks(texts, p) ==
    [i \in 1..Len(texts) |->
        [type |-> "dict", text |-> texts[i], chunk_index |-> i - 1,
         total_chunks |-> Len(texts), file_path |-> p, metadata |-> Absent]]

(***************************************************************************)
(* Vector store operations of the handler                                  *)
(***************************************************************************)
\* the point keyed by the chunk's index instead of a fresh identifier
ChunkPoint_KeyedByIndex(id, chunk, p) ==
    [id |-> chunk.chunk_index, file_path |-> p, chunk_index |-> chunk.chunk_index,
     metadata_file_path |-> chunk.metadata]

\* the point insert_chunks (qdrant_handler_fixed.py) builds for one chunk;
\* metadata_file_path is payload["metadata"]["file_path"], Absent because
\* chunk.get("metadata", {}) is {}
ChunkPoint(id, chunk, p) ==
    [id |-> id, file_path |-> p, chunk_index |-> chunk.chunk_index,
     metadata_file_path |-> chunk.metadata]

\* every document's points put into the rulebooks collection
insert_chunks_IntoRulebooks(st, id, chunks, p) ==
    LET points == {ChunkPoint(id + i - 1, chunks[i], p) : i \in 1..Len(chunks)}
    IN [store |-> [st EXCEPT ![qdrant_collection_rulebooks] = @ \cup points],
        nextId |-> id + Len(chunks),
        count |-> Len(chunks)]

\* QdrantHandler.insert_chunks (qdrant_handler_fixed.py) after a successful upsert
insert_chunks(st, id, chunks, p) ==
    LET collection == DetermineCollection[p]
        points == {ChunkPoint(id + i - 1, chunks[i], p) : i \in 1..Len(chunks)}
    IN [store |-> [st EXCEPT ![collection] = @ \cup points],
        nextId |-> id + Len(chunks),
        count |-> Len(chunks)]

\* QdrantHandler.insert_npcs (qdrant_handler_fixed.py) reads these attributes
InsertNpcsReads == {"name", "description", "stats", "source_file", "page_number"}

\* QdrantHandler.insert_npcs, called with k >= 1 NPCData of one source file.
\* qdrant_handler_fixed.py: AttributeError on the first attribute NPCData lacks.
\* qdrant_handler.py: one upsert per NPC (insert_npc).
insert_npcs(h, st, id, k, source_file) ==
    IF h = QdrantHandlerFixedPy /\ ~(InsertNpcsReads \subseteq NPCDataFields)
    THEN [raised |-> TRUE, store |-> st, nextId |-> id, count |-> 0]
    ELSE [raised |-> FALSE,
          store |-> [st EXCEPT ![qdrant_collection_npcs] =
                        @ \cup {[id |-> id + i - 1, source_file |-> source_file] : i \in 1..k}],
          nextId |-> id + k,
          count |-> k]

\* the scroll filter of _file_already_imported: key "metadata.file_path"
MatchesScrollFilter(point, p) == point.metadata_file_path = p

\* the existence check taking a query that raised for "already imported"
file_already_imported_AssumesImported(h, st, p, scroll) ==
    IF h = QdrantHandlerPy THEN FALSE
    ELSE IF scroll = "raise" THEN TRUE
    ELSE \E point \in st[DetermineCollection[p]] : MatchesScrollFilter(point, p)

\* ImportProcessor._file_already_imported.  With qdrant_handler.py the call
\* determine_collection(file_path) lacks the metadata argument: TypeError,
\* caught, False.
file_already_imported(h, st, p, scroll) ==
    IF h = QdrantHandlerPy THEN FALSE
    ELSE IF scroll = "raise" THEN FALSE
    ELSE \E point \in st[DetermineCollection[p]] : MatchesScrollFilter(point, p)

\* the outcomes the scroll call can have, when it is made
ScrollOutcomes(h, skip_if_exists) ==
    IF skip_if_exists /\ h = QdrantHandlerFixedPy THEN {"ok", "raise"} ELSE {"none"}

(***************************************************************************)
(* import_processor.py: ImportProcessor.process_file                       *)
(***************************************************************************)
NoError == "None"

\* the ImportResult dataclass (processing_time left out)
ImportResult(file_path, success, chunks_imported, npcs_extracted, collection_used, error, skipped_npc_extraction, skipped_existing) ==
    [file_path |-> file_path, success |-> success,
     chunks_imported |-> chunks_imported, npcs_extracted |-> npcs_extracted,
     collection_used |-> collection_used, error |-> error,
     skipped_npc_extraction |-> skipped_npc_extraction,
     skipped_existing |-> skipped_existing]

\* "except Exception as e": ImportResult(file_path, success=False, error=str(e))
Failed(p, e) == ImportResult(p, FALSE, 0, 0, "", e, FALSE, FALSE)

\* One way a process_file call can go: its result, the store it leaves, and
\* what happened on the way: the external calls made in order (trace; the
\* entry "scroll_raised" follows a scroll call that raised), the
\* collection insert_chunks chose (routed), the exception raised inside the
\* try block (raised), the chunk texts read (content) and the behaviour the
\* extraction service had for this call (svc).
Outcome(result, st, id, trace, routed, raised, content, svc) ==
    [result |-> result, store |-> st, nextId |-> id, trace |-> trace,
     routed |-> routed, raised |-> raised, content |-> content, svc |-> svc]

\* ImportProcessor.__init__: npc_extractor is built iff extraction is enabled
npc_extractor(enable) == enable

\* process_file lines 172-176: extract_npcs_from_chunks, then insert_npcs
ExtractStage(h, st, id, p, chunks, content, chunks_inserted, trace, svc) ==
    LET collection == DetermineCollection[p]
        ex == extract_npcs_from_chunks(chunks, svc)
        tr1 == Append(trace, "extract") \o [i \in 1..ex.service_calls |-> "service"]
        ins == insert_npcs(h, st, id, ex.npcs, p)
    IN IF ex.raised
       THEN Outcome(Failed(p, "TypeError"), st, id, tr1, collection,
                    "TypeError", content, svc)
       ELSE IF ex.npcs = 0
       THEN Outcome(ImportResult(p, TRUE, chunks_inserted, 0, collection,
                                 NoError, FALSE, FALSE),
                    st, id, tr1, collection, NoError, content, svc)
       ELSE IF ins.raised
       THEN Outcome(Failed(p, "AttributeError"), st, id, tr1, collection,
                    "AttributeError", content, svc)
       ELSE Outcome(ImportResult(p, TRUE, chunks_inserted, ins.count, collection,
                                 NoError, FALSE, FALSE),
                    ins.store, ins.nextId, Append(tr1, "upsert_npcs"),
                    collection, NoError, content, svc)

\* AfterInsert as it is without the adventure-path branch and with an
\* extraction path that works: the chunk texts go to the extractor and the
\* NPCs are inserted one by one (insert_npc of qdrant_handler.py)
AfterInsert_Ungated(h, enable, st, id, p, extract_npcs, chunks, content, chunks_inserted, trace) ==
    IF extract_npcs /\ npc_extractor(enable) /\ enable
    THEN { ExtractStage(QdrantHandlerPy, st, id, p,
                        [i \in 1..Len(chunks) |-> Str(chunks[i].text)],
                        content, chunks_inserted, trace, svc)
             : svc \in Responses }
    ELSE { Outcome(ImportResult(p, TRUE, chunks_inserted, 0, DetermineCollection[p],
                                NoError, FALSE, FALSE),
                   st, id, trace, DetermineCollection[p], NoError, content, NoResponse) }

\* AfterInsert with the adventure-path branch not setting skipped_npc_extraction
AfterInsert_NoSkipFlag(h, enable, st, id, p, extract_npcs, chunks, content, chunks_inserted, trace) ==
    LET collection == DetermineCollection[p]
    IN IF ~IsAdventurePath[p] /\ extract_npcs /\ npc_extractor(enable) /\ enable
       THEN { ExtractStage(h, st, id, p, chunks, content, chunks_inserted, trace, svc)
                : svc \in Responses }
       ELSE { Outcome(ImportResult(p, TRUE, chunks_inserted, 0, collection,
                                   NoError, FALSE, FALSE),
                      st, id, trace, collection, NoError, content, NoResponse) }

\* AfterInsert with the caller's extract_npcs argument left out of the condition
AfterInsert_IgnoresArgument(h, enable, st, id, p, extract_npcs, chunks, content, chunks_inserted, trace) ==
    LET collection == DetermineCollection[p]
    IN IF IsAdventurePath[p]
       THEN { Outcome(ImportResult(p, TRUE, chunks_inserted, 0, collection,
                                   NoError, TRUE, FALSE),
                      st, id, trace, collection, NoError, content, NoResponse) }
       ELSE IF npc_extractor(enable) /\ enable
       THEN { ExtractStage(h, st, id, p, chunks, content, chunks_inserted, trace, svc)
                : svc \in Responses }
       ELSE { Outcome(ImportResult(p, TRUE, chunks_inserted, 0, collection,
                                   NoError, FALSE, FALSE),
                      st, id, trace, collection, NoError, content, NoResponse) }

\* process_file lines 160-188: after insert_chunks has returned
AfterInsert(h, enable, st, id, p, extract_npcs, chunks, content, chunks_inserted, trace) ==
    LET collection == DetermineCollection[p]
    IN IF IsAdventurePath[p]
       THEN { Outcome(ImportResult(p, TRUE, chunks_inserted, 0, collection,
                                   NoError, TRUE, FALSE),
                      st, id, trace, collection, NoError, content, NoResponse) }
       ELSE IF extract_npcs /\ npc_extractor(enable) /\ enable
       THEN { ExtractStage(h, st, id, p, chunks, content, chunks_inserted, trace, svc)
                : svc \in Responses }
       ELSE { Outcome(ImportResult(p, TRUE, chunks_inserted, 0, collection,
                                   NoError, FALSE, FALSE),
                      st, id, trace, collection, NoError, content, NoResponse) }

\* the chunk upsert leaving the points in the store when it raises
InsertStage_PartialCommit(h, enable, st, id, p, extract_npcs, chunks, content, trace) ==
    IF h = QdrantHandlerPy
    THEN { Outcome(Failed(p, "TypeError"), st, id, trace,
                   DetermineCollectionOrig[p], "TypeError", content, NoResponse) }
    ELSE UNION {
           LET ins == insert_chunks(st, id, chunks, p)
           IN IF upsert = "raise"
              THEN { Outcome(Failed(p, "upsert failed"), ins.store, ins.nextId,
                             Append(trace, "upsert_chunks"), DetermineCollection[p],
                             "upsert failed", content, NoResponse) }
              ELSE AfterInsert(h, enable, ins.store, ins.nextId, p, extract_npcs,
                               chunks, content, ins.count,
                               Append(trace, "upsert_chunks"))
         : upsert \in {"ok", "raise"} }

\* process_file line 158: self.qdrant.insert_chunks(chunks, embeddings, file_path).
\* qdrant_handler.py takes (chunks, metadata, file_path): it routes, embeds
\* and then raises TypeError on metadata['filename'], before any upsert.
InsertStage(h, enable, st, id, p, extract_npcs, chunks, content, trace) ==
    IF h = QdrantHandlerPy
    THEN { Outcome(Failed(p, "TypeError"), st, id, trace,
                   DetermineCollectionOrig[p], "TypeError", content, NoResponse) }
    ELSE UNION {
           IF upsert = "raise"
           THEN { Outcome(Failed(p, "upsert failed"), st, id,
                          Append(trace, "upsert_chunks"), DetermineCollection[p],
                          "upsert failed", content, NoResponse) }
           ELSE LET ins == insert_chunks(st, id, chunks, p)
                IN AfterInsert(h, enable, ins.store, ins.nextId, p, extract_npcs,
                               chunks, content, ins.count,
                               Append(trace, "upsert_chunks"))
         : upsert \in {"ok", "raise"} }

\* the chunks upserted before the embeddings are generated
ChunkStage_UpsertBeforeEmbed(h, enable, st, id, p, extract_npcs, content, trace) ==
    LET chunks == create_chunks(content, p)
    IN IF chunks = <<>>
       THEN { Outcome(Failed(p, "No chunks created from file"), st, id, trace,
                      "", NoError, content, NoResponse) }
       ELSE { [o EXCEPT !.trace = Append(@, "embed")]
                : o \in InsertStage(h, enable, st, id, p, extract_npcs, chunks,
                                    content, trace) }

\* process_file lines 141-155: create_chunks, the empty check, the embeddings
ChunkStage(h, enable, st, id, p, extract_npcs, content, trace) ==
    LET chunks == create_chunks(content, p)
    IN IF chunks = <<>>
       THEN { Outcome(Failed(p, "No chunks created from file"), st, id, trace,
                      "", NoError, content, NoResponse) }
       ELSE UNION {
              IF embed = "raise"
              THEN { Outcome(Failed(p, "embedding failed"), st, id,
                             Append(trace, "embed"), "", "embedding failed",
                             content, NoResponse) }
              ELSE InsertStage(h, enable, st, id, p, extract_npcs, chunks,
                               content, Append(trace, "embed"))
            : embed \in {"ok", "raise"} }

\* process_file lines 134-139: open and read the file
ReadStage(h, enable, st, id, p, extract_npcs, trace) ==
    { Outcome(Failed(p, "read failed"), st, id, Append(trace, "read"),
              "", "read failed", <<>>, NoResponse) }
    \cup UNION { ChunkStage(h, enable, st, id, p, extract_npcs, content,
                            Append(trace, "read"))
                 : content \in DocContents }

\* ImportProcessor.process_file: every way the call can go
process_file(h, enable, st, id, p, extract_npcs, skip_if_exists) ==
    UNION {
        LET trace == CASE scroll = "none" -> <<>>
                       [] scroll = "raise" -> <<"scroll", "scroll_raised">>
                       [] OTHER -> <<"scroll">>
        IN IF skip_if_exists /\ file_already_imported(h, st, p, scroll)
           THEN { Outcome(ImportResult(p, TRUE, 0, 0, "", NoError, FALSE, TRUE),
                          st, id, trace, "", NoError, <<>>, NoResponse) }
           ELSE ReadStage(h, enable, st, id, p, extract_npcs, trace)
      : scroll \in ScrollOutcomes(h, skip_if_exists) }

EmptyStore == [c \in Collections |-> {}]

\* the number of chunk points in the store (both document collections)
ChunkPoints(st) ==
    Cardinality(st[qdrant_collection_rulebooks])
    + Cardinality(st[qdrant_collection_adventurepaths])

\* the record kept of a process_file call that found the store `before`:
\* its arguments, its Outcome, and the numbers of points it added
CallRecord(p, extract_npcs, skip_if_exists, o, before) ==
    [file_path |-> p, extract_npcs |-> extract_npcs,
     skip_if_exists |-> skip_if_exists, result |-> o.result, trace |-> o.trace,
     routed |-> o.routed, raised |-> o.raised, content |-> o.content,
     svc |-> o.svc,
     chunks_written |-> ChunkPoints(o.store) - ChunkPoints(before),
     npcs_written |-> Cardinality(o.store[qdrant_collection_npcs])
                      - Cardinality(before[qdrant_collection_npcs])]

NoCall ==
    CallRecord(Absent, FALSE, FALSE,
               Outcome(Failed(Absent, NoError), EmptyStore, 0, <<>>, "", NoError,
                       <<>>, NoResponse),
               EmptyStore)

\* a caller (cli.py main, single file) calls process_file
ProcessFile ==
    /\ calls < MaxCalls
    /\ \E p \in Paths, extract_npcs \in BOOLEAN, skip_if_exists \in BOOLEAN :
         \E o \in process_file(handler, enable_npc_extraction, store, nextId,
                               p, extract_npcs, skip_if_exists) :
            /\ store' = o.store
            /\ nextId' = o.nextId
            /\ last' = CallRecord(p, extract_npcs, skip_if_exists, o, store)
    /\ calls' = calls + 1
    /\ UNCHANGED <<handler, enable_npc_extraction>>
    /\ UNCHANGED dirVars
    /\ UNCHANGED detectVars
    /\ UNCHANGED unitVars

(***************************************************************************)
(* import_processor.py: ImportProcessor.process_directory                  *)
(***************************************************************************)
\* what directory.glob / rglob can return: the matching files, each once, in
\* the order the file system lists them
Enumerations ==
    UNION { {f \in [1..n -> Paths] : \A i, j \in 1..n : f[i] = f[j] => i = j}
            : n \in 0..MaxFiles }

\* process_directory lines 220-240: enumerate; "if not files: return []"
ProcessDirectoryStart ==
    /\ dirPc = "idle"
    /\ \E fs \in Enumerations, extract_npcs \in BOOLEAN, skip_existing \in BOOLEAN :
         /\ files' = fs
         /\ dirArgs' = [extract_npcs |-> extract_npcs, skip_existing |-> skip_existing]
         /\ results' = <<>>
         /\ dirPc' = IF fs = <<>> THEN "returned" ELSE "loop"
    /\ UNCHANGED mainVars
    /\ UNCHANGED detectVars
    /\ UNCHANGED unitVars

\* process_directory lines 241-248: one iteration of the loop
ProcessDirectoryStep ==
    /\ dirPc = "loop"
    /\ Len(results) < Len(files)
    /\ LET file_path == files[Len(results) + 1]
       IN \E o \in process_file(handler, enable_npc_extraction, store, nextId,
                                file_path, dirArgs.extract_npcs,
                                dirArgs.skip_existing) :
            /\ store' = o.store
            /\ nextId' = o.nextId
            /\ last' = CallRecord(file_path, dirArgs.extract_npcs,
                                  dirArgs.skip_existing, o, store)
            /\ results' = Append(results, o.result)
    /\ calls' = calls + 1
    /\ UNCHANGED <<handler, enable_npc_extraction, files, dirArgs, dirPc>>
    /\ UNCHANGED detectVars
    /\ UNCHANGED unitVars

\* process_directory giving up on the batch at the first failed document
ProcessDirectoryReturn_OnFailure ==
    /\ dirPc = "loop"
    /\ \/ Len(results) = Len(files)
       \/ results # <<>> /\ ~results[Len(results)].success
    /\ dirPc' = "returned"
    /\ UNCHANGED <<files, dirArgs, results>>
    /\ UNCHANGED mainVars
    /\ UNCHANGED detectVars
    /\ UNCHANGED unitVars

\* process_directory line 250: return results
ProcessDirectoryReturn ==
    /\ dirPc = "loop"
    /\ Len(results) = Len(files)
    /\ dirPc' = "returned"
    /\ UNCHANGED <<files, dirArgs, results>>
    /\ UNCHANGED mainVars
    /\ UNCHANGED detectVars
    /\ UNCHANGED unitVars

\* after ImportProcessor.__init__: the three collections exist and are empty
InitMain ==
    /\ handler \in Handlers
    /\ enable_npc_extraction \in BOOLEAN
    /\ store = EmptyStore
    /\ nextId = 1
    /\ calls = 0
    /\ last = NoCall

InitDirIdle ==
    /\ files = <<>>
    /\ dirArgs = [extract_npcs |-> FALSE, skip_existing |-> FALSE]
    /\ results = <<>>
    /\ dirPc = "idle"

InitDetectIdle ==
    /\ dChunks = <<>>
    /\ dGroups = <<>>
    /\ dPc = "idle"

InitExtractIdle ==
    /\ xSvc = NoResponse
    /\ xThreshold = npc_confidence_threshold
    /\ xReturn = [raised |-> FALSE, npcs |-> <<>>]
    /\ xPc = "idle"

InitChunkIdle ==
    /\ cText = <<>>
    /\ cSize = 1
    /\ cOverlap = 0
    /\ cStart = 0
    /\ cPrev = -1
    /\ cEnd = 0
    /\ cChunks = <<>>
    /\ cCovered = {}
    /\ cPc = "idle"

\* Config() with the defaults of config.py lines 28-50 and an endpoint and
\* key set
DefaultConfig ==
    [azure_endpoint |-> "https://example.openai.azure.com", azure_api_key |-> "key",
     azure_deployment_name |-> "gpt-4o", chunk_size |-> 1000, chunk_overlap |-> 200]

InitCliIdle ==
    /\ cliConfig = DefaultConfig
    /\ cliArgs = [validate_only |-> FALSE, input_path |-> "missing"]
    /\ cliTrace = <<>>
    /\ cliExit = -1
    /\ cliPc = "idle"

\* the two callers whose process_file calls interleave
Importers == {1, 2}

InitRaceIdle ==
    /\ rArgs = [file_path |-> Absent, extract_npcs |-> FALSE]
    /\ rPc = [w \in Importers |-> "idle"]
    /\ rFound = [w \in Importers |-> [found |-> FALSE, trace |-> <<>>]]
    /\ rEarly = [w \in Importers |-> FALSE]
    /\ rLast = [w \in Importers |-> NoCall]

InitNormIdle ==
    /\ nRaw = <<>>
    /\ nText = <<>>
    /\ nPc = "idle"

\* ImporterGUI.__init__ before _load_config: widgets as _create_widgets
\* builds them (both buttons state='disabled', gui.py lines 146-160)
InitGuiIdle ==
    /\ gIsProcessing = FALSE
    /\ gImportButton = "disabled"
    /\ gStopButton = "disabled"
    /\ gInputDir = "empty"
    /\ gStatus = "Not loaded"
    /\ gThreads = 0
    /\ gPending = 0

InitLateIdle == InitRaceIdle /\ InitNormIdle /\ InitGuiIdle

InitUnitIdle == InitExtractIdle /\ InitChunkIdle /\ InitCliIdle /\ InitLateIdle

Init == InitMain /\ InitDirIdle /\ InitDetectIdle /\ InitUnitIdle

Next == ProcessFile

\* single-file runs: a sequence of process_file calls on one store
Spec == Init /\ [][Next]_vars

NextDir ==
    \/ ProcessDirectoryStart
    \/ ProcessDirectoryStep
    \/ ProcessDirectoryReturn

\* a directory run: one process_directory call
SpecDir == Init /\ [][NextDir]_vars

(***************************************************************************)
(* Two callers (two cli.py processes, or two threads sharing an            *)
(* ImportProcessor) run process_file(path, skip_if_exists=True) on one     *)
(* store.  process_file takes no lock: the existence check of line 125 and *)
(* the rest of the call (lines 134-188) are separate steps, and the other  *)
(* caller may run between them.                                            *)
(***************************************************************************)

\* the calls line 125 has made when _file_already_imported returns
CheckTrace(scroll) ==
    CASE scroll = "none" -> <<>>
      [] scroll = "raise" -> <<"scroll", "scroll_raised">>
      [] OTHER -> <<"scroll">>

\* the rest of the call looking the path up again before it writes
AfterCheck_Rechecks(h, enable, st, id, p, extract_npcs, found, trace) ==
    IF found \/ \E point \in st[DetermineCollection[p]] : point.file_path = p
    THEN { Outcome(ImportResult(p, TRUE, 0, 0, "", NoError, FALSE, TRUE),
                   st, id, trace, "", NoError, <<>>, NoResponse) }
    ELSE ReadStage(h, enable, st, id, p, extract_npcs, trace)

\* process_file from the branch of line 125 on: the early return of lines
\* 126-132 when the check found the file, lines 134-197 otherwise, against
\* the store as it is now
AfterCheck(h, enable, st, id, p, extract_npcs, found, trace) ==
    IF found
    THEN { Outcome(ImportResult(p, TRUE, 0, 0, "", NoError, FALSE, TRUE),
                   st, id, trace, "", NoError, <<>>, NoResponse) }
    ELSE ReadStage(h, enable, st, id, p, extract_npcs, trace)

InitRace ==
    /\ InitMain
    /\ InitDirIdle
    /\ InitDetectIdle
    /\ InitExtractIdle
    /\ InitChunkIdle
    /\ InitCliIdle
    /\ InitNormIdle
    /\ InitGuiIdle
    /\ rArgs \in [file_path : Paths, extract_npcs : BOOLEAN]
    /\ rPc = [w \in Importers |-> "start"]
    /\ rFound = [w \in Importers |-> [found |-> FALSE, trace |-> <<>>]]
    /\ rEarly = [w \in Importers |-> FALSE]
    /\ rLast = [w \in Importers |-> NoCall]

RaceUnchanged ==
    /\ UNCHANGED <<handler, enable_npc_extraction, calls, last>>
    /\ UNCHANGED dirVars
    /\ UNCHANGED detectVars
    /\ UNCHANGED <<extractVars, chunkVars, cliVars, normVars, guiVars>>

\* caller w evaluates `skip_if_exists and self._file_already_imported(...)`
RaceCheck(w) ==
    /\ rPc[w] = "start"
    /\ \E scroll \in ScrollOutcomes(handler, TRUE) :
         rFound' = [rFound EXCEPT ![w] =
                      [found |-> file_already_imported(handler, store,
                                                       rArgs.file_path, scroll),
                       trace |-> CheckTrace(scroll)]]
    /\ rEarly' = [rEarly EXCEPT ![w] = \A v \in Importers : rPc[v] # "done"]
    /\ rPc' = [rPc EXCEPT ![w] = "checked"]
    /\ UNCHANGED <<rArgs, rLast, store, nextId>>
    /\ RaceUnchanged

\* caller w runs the rest of its call
RaceImport(w) ==
    /\ rPc[w] = "checked"
    /\ \E o \in AfterCheck(handler, enable_npc_extraction, store, nextId,
                           rArgs.file_path, rArgs.extract_npcs,
                           rFound[w].found, rFound[w].trace) :
         /\ store' = o.store
         /\ nextId' = o.nextId
         /\ rLast' = [rLast EXCEPT ![w] =
                        CallRecord(rArgs.file_path, rArgs.extract_npcs, TRUE,
                                   o, store)]
    /\ rPc' = [rPc EXCEPT ![w] = "done"]
    /\ UNCHANGED <<rArgs, rFound, rEarly>>
    /\ RaceUnchanged

NextRace == \E w \in Importers : RaceCheck(w) \/ RaceImport(w)

\* two process_file calls for one path, interleaved
SpecRace == InitRace /\ [][NextRace]_vars

(***************************************************************************)
(* NPCExtractor._identify_npc_chunks on its own                            *)
(***************************************************************************)
\* the chunk lists (List[str]) the detector is applied to
DetectInputs ==
    UNION { [1..n -> {Str(t) : t \in SUBSET (1..MaxPat)}] : n \in 0..MaxDetectChunks }

InitDetect ==
    /\ InitMain
    /\ handler = QdrantHandlerPy
    /\ enable_npc_extraction
    /\ InitDirIdle
    /\ dChunks \in DetectInputs
    /\ dGroups = <<>>
    /\ dPc = "input"
    /\ InitUnitIdle

IdentifyNpcChunks ==
    /\ dPc = "input"
    /\ dGroups' = identify_npc_chunks(dChunks).groups
    /\ dPc' = "done"
    /\ UNCHANGED dChunks
    /\ UNCHANGED mainVars
    /\ UNCHANGED dirVars
    /\ UNCHANGED unitVars

NextDetect == IdentifyNpcChunks

SpecDetect == InitDetect /\ [][NextDetect]_vars

(***************************************************************************)
(* NPCExtractor._extract_npc_from_text on its own                          *)
(***************************************************************************)
\* the confidence scores (in tenths) and thresholds the function is run on
Confidences == {5, 7, 9}
Thresholds == {7, 9}

\* what an entry can be, apart from its name
EntryForms ==
    {[obj |-> FALSE, conf |-> NoScore]}
    \cup {[obj |-> TRUE, conf |-> c]
            : c \in {NoScore, NullScore} \cup {Score10(x) : x \in Confidences}}

\* entry lists of up to MaxEntries entries, each named by its position
EntryLists ==
    UNION { { [i \in 1..n |-> [obj |-> f[i].obj, name |-> i, conf |-> f[i].conf]]
              : f \in [1..n -> EntryForms] }
            : n \in 0..MaxEntries }

ServiceOutcomes ==
    {TransportError, NotJson, Json("other", <<>>), Json("wrapper_null", <<>>)}
    \cup {Json(shape, l) : shape \in {"wrapper", "list"}, l \in EntryLists}
    \cup {Json("single", l) : l \in {e \in EntryLists : Len(e) = 1 /\ e[1].obj}}

InitExtract ==
    /\ InitMain
    /\ handler = QdrantHandlerPy
    /\ enable_npc_extraction
    /\ InitDirIdle
    /\ InitDetectIdle
    /\ xSvc \in ServiceOutcomes
    /\ xThreshold \in Thresholds
    /\ xReturn = [raised |-> FALSE, npcs |-> <<>>]
    /\ xPc = "input"
    /\ InitChunkIdle
    /\ InitCliIdle
    /\ InitLateIdle

ExtractNpcFromText ==
    /\ xPc = "input"
    /\ xReturn' = extract_npc_from_text(xSvc, xThreshold)
    /\ xPc' = "done"
    /\ UNCHANGED <<xSvc, xThreshold>>
    /\ UNCHANGED mainVars
    /\ UNCHANGED dirVars
    /\ UNCHANGED detectVars
    /\ UNCHANGED chunkVars
    /\ UNCHANGED cliVars
    /\ UNCHANGED lateVars

NextExtract == ExtractNpcFromText

SpecExtract == InitExtract /\ [][NextExtract]_vars

(***************************************************************************)
(* text_processor.py: TextChunker.chunk_text                               *)
(*                                                                         *)
(* A text is a tuple of characters; positions are Python's (0-based), so   *)
(* character i of the text is text[i + 1].                                 *)
(***************************************************************************)
\* the characters str.strip() removes, among those of the texts below
Whitespace == {" ", "\n"}

\* text[a:b]
Slice(text, a, b) == SubSeq(text, a + 1, b)

RECURSIVE LStrip(_)
LStrip(s) == IF s # <<>> /\ Head(s) \in Whitespace THEN LStrip(Tail(s)) ELSE s

RECURSIVE RStrip(_)
RStrip(s) ==
    IF s # <<>> /\ s[Len(s)] \in Whitespace THEN RStrip(SubSeq(s, 1, Len(s) - 1)) ELSE s

\* leading whitespace removed, trailing whitespace kept
Strip_LeadingOnly(s) == LStrip(s)

\* str.strip()
Strip(s) == RStrip(LStrip(s))

\* text.rfind(marker, lo, hi): the highest position in lo..hi-len(marker) at
\* which marker occurs, -1 if there is none
RFind(text, marker, lo, hi) ==
    LET found == {pos \in lo..(hi - Len(marker)) :
                     \A k \in 1..Len(marker) : text[pos + k] = marker[k]}
    IN IF found = {} THEN -1
       ELSE CHOOSE pos \in found : \A q \in found : q <= pos

\* line 51
sentence_ends == << <<".", " ">>, <<"!", " ">>, <<"?", " ">>, <<"\n", "\n">> >>

\* lines 52-59: best_break after trying the markers m.. in order; the first
\* marker found wins
RECURSIVE SentenceBreak(_, _, _, _, _)
SentenceBreak(text, start, overlap, end, m) ==
    IF m > Len(sentence_ends) THEN end
    ELSE LET marker == sentence_ends[m]
             pos == RFind(text, marker, start + overlap, end)
         IN IF pos # -1 THEN pos + Len(marker) - 1
            ELSE SentenceBreak(text, start, overlap, end, m + 1)

\* lines 51-65: best_break
BestBreak(text, start, overlap, end) ==
    LET best_break == SentenceBreak(text, start, overlap, end, 1)
    IN IF best_break = end
       THEN LET space_pos == RFind(text, <<" ">>, start + overlap, end)
            IN IF space_pos # -1 THEN space_pos ELSE best_break
       ELSE best_break

\* lines 46-67: end
WindowEnd(text, start, size, overlap) ==
    LET end == IF start + size < Len(text) THEN start + size ELSE Len(text)
    IN IF end < Len(text) THEN BestBreak(text, start, overlap, end) ELSE end

\* every span appended, empty ones too
KeepChunk_Always(chunk) == TRUE

\* line 71: "if chunk:"
KeepChunk(chunk) == chunk # <<>>

\* the cursor moved past the character at the cut
NextStart_SkipsCut(text, end, overlap) ==
    IF end < Len(text) THEN end - overlap + 1 ELSE Len(text)

\* the next window starting where the last one ended
NextStart_NoOverlap(text, end, overlap) ==
    IF end < Len(text) THEN end ELSE Len(text)

\* line 75: start = end - self.overlap if end < text_length else text_length
NextStart(text, end, overlap) ==
    IF end < Len(text) THEN end - overlap ELSE Len(text)

\* the texts chunk_text is run on, and the valid configurations
\* (Config.validate: chunk_size > 0, 0 <= overlap < chunk_size)
Alphabet == {"a", " ", ".", "\n"}
Texts == UNION { [1..n -> Alphabet] : n \in 0..MaxLen }
ChunkConfigs ==
    {c \in [chunk_size : 1..MaxChunkSize, overlap : 0..MaxChunkSize] :
        c.overlap < c.chunk_size}

\* lines 36-43: "if not text: return []" is the loop run zero times
InitChunk ==
    /\ InitMain
    /\ handler = QdrantHandlerPy
    /\ enable_npc_extraction
    /\ InitDirIdle
    /\ InitDetectIdle
    /\ InitExtractIdle
    /\ InitCliIdle
    /\ InitLateIdle
    /\ cText \in Texts
    /\ \E c \in ChunkConfigs : cSize = c.chunk_size /\ cOverlap = c.overlap
    /\ cStart = 0
    /\ cPrev = -1
    /\ cEnd = 0
    /\ cChunks = <<>>
    /\ cCovered = {}
    /\ cPc = "loop"

\* lines 44-75: one iteration of the while loop. A run that makes progress
\* appends at most one chunk per character, so the guard on the length of
\* chunks cuts only runs that never end.
ChunkTextIterate ==
    /\ cPc = "loop"
    /\ cStart < Len(cText)
    /\ Len(cChunks) <= Len(cText)
    /\ LET end == WindowEnd(cText, cStart, cSize, cOverlap)
           chunk == Strip(Slice(cText, cStart, end))
       IN /\ cChunks' = IF KeepChunk(chunk) THEN Append(cChunks, chunk) ELSE cChunks
          /\ cEnd' = end
          /\ cCovered' = cCovered \cup cStart..(end - 1)
          /\ cStart' = NextStart(cText, end, cOverlap)
    /\ cPrev' = cStart
    /\ UNCHANGED <<cText, cSize, cOverlap, cPc>>
    /\ UNCHANGED mainVars
    /\ UNCHANGED dirVars
    /\ UNCHANGED detectVars
    /\ UNCHANGED extractVars
    /\ UNCHANGED cliVars
    /\ UNCHANGED lateVars

\* line 77: return chunks
ChunkTextReturn ==
    /\ cPc = "loop"
    /\ ~(cStart < Len(cText))
    /\ cPc' = "done"
    /\ UNCHANGED <<cText, cSize, cOverlap, cStart, cPrev, cEnd, cChunks, cCovered>>
    /\ UNCHANGED mainVars
    /\ UNCHANGED dirVars
    /\ UNCHANGED detectVars
    /\ UNCHANGED extractVars
    /\ UNCHANGED cliVars
    /\ UNCHANGED lateVars

NextChunk == ChunkTextIterate \/ ChunkTextReturn

SpecChunk == InitChunk /\ [][NextChunk]_vars

(***************************************************************************)
(* The text process_file chunks (import_processor.py lines 136-144) and    *)
(* MarkdownProcessor.clean_markdown (text_processor.py lines 321-343).     *)
(* The three re.sub calls are computed on the characters: leftmost match,  *)
(* greedy \s* and \n{3,}, lazy .*?, DOTALL, ^ at the start of the string   *)
(* only.                                                                   *)
(***************************************************************************)
MaxFragments == 4

\* text[i..] begins with pat (i counted from 1)
StartsAt(text, pat, i) ==
    /\ i >= 1
    /\ i + Len(pat) - 1 <= Len(text)
    /\ \A k \in 1..Len(pat) : text[i + k - 1] = pat[k]

Rest(text, i) == SubSeq(text, i, Len(text))

SetMax(S) == CHOOSE x \in S : \A y \in S : y <= x
SetMin(S) == CHOOSE x \in S : \A y \in S : x <= y

Fence == <<"-", "-", "-">>
CommentOpen == <<"<", "!", "-", "-">>
CommentClose == <<"-", "-", ">">>

\* positions where `\s*\n` can end when it starts at position from
SpaceThenNewline(text, from) ==
    {r \in from..Len(text) :
        /\ text[r] = "\n"
        /\ \A k \in from..(r - 1) : text[k] \in Whitespace}

\* positions of a `\n---` that a closing `\s*\n` follows, after position p
FenceClosers(text, p) ==
    {q \in (p + 1)..Len(text) :
        /\ StartsAt(text, <<"\n">> \o Fence, q)
        /\ SpaceThenNewline(text, q + 4) # {}}

\* re.sub(r'^---\s*\n.*?\n---\s*\n', '', content, flags=re.DOTALL)
RemoveFrontMatter(content) ==
    LET openers == {p \in SpaceThenNewline(content, 4) :
                       FenceClosers(content, p) # {}}
    IN IF ~StartsAt(content, Fence, 1) \/ openers = {} THEN content
       ELSE LET p == SetMax(openers)
                q == SetMin(FenceClosers(content, p))
                r == SetMax(SpaceThenNewline(content, q + 4))
            IN Rest(content, r + 1)

\* positions of a `-->` that can close a comment opened at position i
CommentClosers(text, i) ==
    {j \in (i + 4)..Len(text) : StartsAt(text, CommentClose, j)}

RECURSIVE RemoveComments(_)
\* re.sub(r'<!--.*?-->', '', content, flags=re.DOTALL)
RemoveComments(content) ==
    LET opens == {i \in 1..Len(content) :
                     /\ StartsAt(content, CommentOpen, i)
                     /\ CommentClosers(content, i) # {}}
    IN IF opens = {} THEN content
       ELSE LET i == SetMin(opens)
                j == SetMin(CommentClosers(content, i))
            IN SubSeq(content, 1, i - 1) \o RemoveComments(Rest(content, j + 3))

\* length of the run of newlines that starts at position i
NewlineRun(text, i) ==
    SetMax({n \in 0..(Len(text) - i + 1) :
               \A k \in i..(i + n - 1) : text[k] = "\n"})

RECURSIVE CollapseNewlines(_)
\* re.sub(r'\n{3,}', '\n\n', content)
CollapseNewlines(content) ==
    IF content = <<>> THEN <<>>
    ELSE LET n == NewlineRun(content, 1)
         IN IF n >= 3 THEN <<"\n", "\n">> \o CollapseNewlines(Rest(content, n + 1))
            ELSE IF n >= 1 THEN SubSeq(content, 1, n) \o CollapseNewlines(Rest(content, n + 1))
            ELSE <<content[1]>> \o CollapseNewlines(Rest(content, 2))

\* MarkdownProcessor.clean_markdown
clean_markdown(content) ==
    Strip(CollapseNewlines(RemoveComments(RemoveFrontMatter(content))))

\* the `text` argument of the create_chunks call of process_file, lines
\* 141-144: `text=content`, the string f.read() returned.  The sections
\* parse_markdown returns (line 139) are not used, and process_file does
\* not call clean_markdown.
TextToChunk(content) == content

\* pieces a file is put together from
Fragments ==
    {Fence \o <<"\n">>, CommentOpen, CommentClose, <<"\n">>, <<"a">>}

RECURSIVE DocsOf(_)
DocsOf(n) ==
    IF n = 0 THEN {<<>>}
    ELSE LET shorter == DocsOf(n - 1)
         IN shorter \cup {doc \o f : doc \in shorter, f \in Fragments}

RawDocs == DocsOf(MaxFragments)

InitNorm ==
    /\ InitMain
    /\ InitDirIdle
    /\ InitDetectIdle
    /\ InitExtractIdle
    /\ InitChunkIdle
    /\ InitCliIdle
    /\ InitRaceIdle
    /\ InitGuiIdle
    /\ nRaw \in RawDocs
    /\ nText = <<>>
    /\ nPc = "read"

\* process_file, lines 139-144: from the content read to the create_chunks call
ProcessFileChunkText ==
    /\ nPc = "read"
    /\ nText' = TextToChunk(nRaw)
    /\ nPc' = "chunked"
    /\ UNCHANGED nRaw
    /\ UNCHANGED mainVars
    /\ UNCHANGED dirVars
    /\ UNCHANGED detectVars
    /\ UNCHANGED <<extractVars, chunkVars, cliVars, raceVars, guiVars>>

NextNorm == ProcessFileChunkText

SpecNorm == InitNorm /\ [][NextNorm]_vars

(***************************************************************************)
(* config.py: Config.validate, and cli.py: main                            *)
(***************************************************************************)
\* Config.validate without the test of the overlap against the chunk size
validate_NoOverlapTest(config) ==
    (IF config.azure_endpoint = "" THEN {"AZURE_ENDPOINT is required"} ELSE {})
    \cup (IF config.azure_api_key = "" THEN {"AZURE_API_KEY is required"} ELSE {})
    \cup (IF config.azure_deployment_name = ""
          THEN {"AZURE_DEPLOYMENT_NAME is required"} ELSE {})
    \cup (IF config.chunk_size <= 0 THEN {"CHUNK_SIZE must be positive"} ELSE {})
    \cup (IF config.chunk_overlap < 0
          THEN {"CHUNK_OVERLAP must be non-negative"} ELSE {})

\* Config.validate (config.py lines 63-86): the errors; is_valid is errors = {}
validate(config) ==
    (IF config.azure_endpoint = "" THEN {"AZURE_ENDPOINT is required"} ELSE {})
    \cup (IF config.azure_api_key = "" THEN {"AZURE_API_KEY is required"} ELSE {})
    \cup (IF config.azure_deployment_name = ""
          THEN {"AZURE_DEPLOYMENT_NAME is required"} ELSE {})
    \cup (IF config.chunk_size <= 0 THEN {"CHUNK_SIZE must be positive"} ELSE {})
    \cup (IF config.chunk_overlap < 0
          THEN {"CHUNK_OVERLAP must be non-negative"} ELSE {})
    \cup (IF config.chunk_overlap >= config.chunk_size
          THEN {"CHUNK_OVERLAP must be less than CHUNK_SIZE"} ELSE {})

\* the configurations an environment can give: each of the three strings
\* empty or set, chunk_size and chunk_overlap any small integer
Configs ==
    [azure_endpoint : {"", "https://example.openai.azure.com"},
     azure_api_key : {"", "key"},
     azure_deployment_name : {"", "gpt-4o"},
     chunk_size : (-1)..MaxChunkSize,
     chunk_overlap : (-1)..MaxChunkSize]

\* --validate-only, and what input_path names: nothing, a markdown file, a
\* file with another suffix, a directory
CliArguments ==
    [validate_only : BOOLEAN,
     input_path : {"missing", "markdown_file", "other_file", "directory"}]

InitCli ==
    /\ InitMain
    /\ handler = QdrantHandlerPy
    /\ enable_npc_extraction
    /\ InitDirIdle
    /\ InitDetectIdle
    /\ InitExtractIdle
    /\ InitChunkIdle
    /\ InitLateIdle
    /\ cliConfig \in Configs
    /\ cliArgs \in CliArguments
    /\ cliTrace = <<>>
    /\ cliExit = -1
    /\ cliPc = "start"

CliUnchanged ==
    /\ UNCHANGED <<cliConfig, cliArgs>>
    /\ UNCHANGED mainVars
    /\ UNCHANGED dirVars
    /\ UNCHANGED detectVars
    /\ UNCHANGED extractVars
    /\ UNCHANGED chunkVars
    /\ UNCHANGED lateVars

\* main lines 73-87: validate; return 1 on errors, 0 for --validate-only
CliValidate ==
    /\ cliPc = "start"
    /\ IF validate(cliConfig) # {}
       THEN cliExit' = 1 /\ cliPc' = "exited"
       ELSE IF cliArgs.validate_only
            THEN cliExit' = 0 /\ cliPc' = "exited"
            ELSE cliExit' = cliExit /\ cliPc' = "valid"
    /\ UNCHANGED cliTrace
    /\ CliUnchanged

\* main line 98: ImportProcessor(config, progress_callback), which connects
\* to the store and builds the chunker, the embedder and the extractor; an
\* exception it raises is not caught and ends the run with status 1
CliCreateProcessor ==
    /\ cliPc = "valid"
    /\ cliTrace' = Append(cliTrace, "ImportProcessor")
    /\ \E constructed \in BOOLEAN :
          IF constructed
          THEN cliExit' = cliExit /\ cliPc' = "ready"
          ELSE cliExit' = 1 /\ cliPc' = "exited"
    /\ CliUnchanged

\* main lines 101-143: the path tests, then process_file or
\* process_directory inside the try statement
CliProcess ==
    /\ cliPc = "ready"
    /\ CASE cliArgs.input_path \in {"missing", "other_file"} ->
              /\ cliTrace' = cliTrace
              /\ cliExit' = 1
              /\ cliPc' = "exited"
         [] cliArgs.input_path = "markdown_file" ->
              /\ cliTrace' = Append(cliTrace, "process_file")
              /\ \E raised \in BOOLEAN :
                    IF raised
                    THEN cliExit' = 1 /\ cliPc' = "exited"
                    ELSE cliExit' = cliExit /\ cliPc' = "processed"
         [] OTHER ->
              /\ cliTrace' = Append(cliTrace, "process_directory")
              /\ \E raised \in BOOLEAN :
                    IF raised
                    THEN cliExit' = 1 /\ cliPc' = "exited"
                    ELSE cliExit' = cliExit /\ cliPc' = "processed"
    /\ CliUnchanged

\* main lines 145-194: the summary, save_results, get_stats; return 0
CliSummary ==
    /\ cliPc = "processed"
    /\ \E raised \in BOOLEAN :
          IF raised
          THEN /\ cliTrace' = Append(cliTrace, "save_results")
               /\ cliExit' = 1
          ELSE /\ cliTrace' = cliTrace \o <<"save_results", "get_stats">>
               /\ cliExit' = 0
    /\ cliPc' = "exited"
    /\ CliUnchanged

NextCli == CliValidate \/ CliCreateProcessor \/ CliProcess \/ CliSummary

SpecCli == InitCli /\ [][NextCli]_vars

(***************************************************************************)
(* gui.py, ImporterGUI: the handlers of the Start Import, Stop and         *)
(* Load/Reload Config controls run on the Tk main thread, one at a time;   *)
(* each _run_import runs on a thread of its own and its finally block      *)
(* (lines 416-418) may run between any two handlers.  A ttk button whose   *)
(* state is 'disabled' does not invoke its command.                        *)
(***************************************************************************)
MaxThreads == 2

\* what get_config and Config.validate give _load_config
LoadOutcomes == {"valid", "invalid", "error"}

\* what input_dir_var can name
InputDirs == {"empty", "missing", "exists"}

\* the widgets after _load_config, lines 256-293
LoadedStatus(outcome) ==
    CASE outcome = "valid" -> "Loaded"
      [] outcome = "invalid" -> "Invalid"
      [] OTHER -> "Error"

GuiUnchanged ==
    /\ UNCHANGED mainVars
    /\ UNCHANGED dirVars
    /\ UNCHANGED detectVars
    /\ UNCHANGED <<extractVars, chunkVars, cliVars, raceVars, normVars>>

\* after __init__, which ends with _load_config() (line 45)
InitGui ==
    /\ InitMain
    /\ InitDirIdle
    /\ InitDetectIdle
    /\ InitExtractIdle
    /\ InitChunkIdle
    /\ InitCliIdle
    /\ InitRaceIdle
    /\ InitNormIdle
    /\ gIsProcessing = FALSE
    /\ gStopButton = "disabled"
    /\ gThreads = 0
    /\ gPending = 0
    /\ \E outcome \in LoadOutcomes, dir \in {"empty", "exists"} :
         /\ gStatus = LoadedStatus(outcome)
         /\ gImportButton = IF outcome = "valid" THEN "normal" ELSE "disabled"
         /\ gInputDir = IF outcome = "valid" THEN dir ELSE "empty"

\* _load_config (Load/Reload Config button, File > Load Config, Update
\* prefix): a valid configuration sets the import button to 'normal' (line
\* 283), whatever is_processing says
GuiLoadConfig ==
    /\ \E outcome \in LoadOutcomes, dir_exists \in BOOLEAN :
         /\ gStatus' = LoadedStatus(outcome)
         /\ gImportButton' = IF outcome = "valid" THEN "normal" ELSE gImportButton
         /\ gInputDir' = IF outcome = "valid" /\ dir_exists THEN "exists" ELSE gInputDir
    /\ UNCHANGED <<gIsProcessing, gStopButton, gThreads, gPending>>
    /\ GuiUnchanged

\* _browse_input, or typing into the entry bound to input_dir_var
GuiBrowseInput ==
    /\ \E dir \in InputDirs : gInputDir' = dir
    /\ UNCHANGED <<gIsProcessing, gImportButton, gStopButton, gStatus, gThreads, gPending>>
    /\ GuiUnchanged

\* _start_import, lines 309-349; the returns of lines 312, 318, 323 and 339
\* leave everything as it is
GuiStartImport ==
    /\ gImportButton = "normal"
    /\ gThreads + gPending < MaxThreads
    /\ \E confirmed \in BOOLEAN :
         IF gIsProcessing \/ gInputDir # "exists" \/ ~confirmed
         THEN UNCHANGED guiVars
         ELSE /\ gIsProcessing' = TRUE
              /\ gImportButton' = "disabled"
              /\ gStopButton' = "normal"
              /\ gThreads' = gThreads + 1
              /\ UNCHANGED <<gInputDir, gStatus, gPending>>
    /\ GuiUnchanged

\* _stop_import, lines 427-432: clears the flag; the thread is not told
GuiStopImport ==
    /\ gStopButton = "normal"
    /\ gIsProcessing' = FALSE
    /\ UNCHANGED <<gImportButton, gStopButton, gInputDir, gStatus, gThreads, gPending>>
    /\ GuiUnchanged

\* a _run_import thread reaches its finally block, lines 416-418, and ends
RunImportFinally ==
    /\ gThreads > 0
    /\ gIsProcessing' = FALSE
    /\ gThreads' = gThreads - 1
    /\ gPending' = gPending + 1
    /\ UNCHANGED <<gImportButton, gStopButton, gInputDir, gStatus>>
    /\ GuiUnchanged

\* _import_finished, lines 420-425, run by the main loop for root.after
GuiImportFinished ==
    /\ gPending > 0
    /\ gImportButton' = "normal"
    /\ gStopButton' = "disabled"
    /\ gPending' = gPending - 1
    /\ UNCHANGED <<gIsProcessing, gInputDir, gStatus, gThreads>>
    /\ GuiUnchanged

NextGui ==
    \/ GuiLoadConfig
    \/ GuiBrowseInput
    \/ GuiStartImport
    \/ GuiStopImport
    \/ RunImportFinally
    \/ GuiImportFinished

\* user actions on the window, interleaved with the import threads
SpecGui == InitGui /\ [][NextGui]_vars

(***************************************************************************)
(* Properties                                                              *)
(***************************************************************************)
\* the call made the named external call
InTrace(c, name) == \E i \in 1..Len(c.trace) : c.trace[i] = name

\* C1: idempotent re-import.  If a process_file(path, skip_if_exists=True)
\* call succeeded and upserted at least one chunk, the next call of
\* process_file(path, skip_if_exists=True) returns success=True,
\* skipped_existing=True, chunks_imported=0 and npcs_extracted=0.
C1_IdempotentReimport ==
    [][ ( /\ calls >= 1
          /\ calls' = calls + 1
          /\ last.skip_if_exists
          /\ last.result.success
          /\ last.chunks_written >= 1
          /\ last'.file_path = last.file_path
          /\ last'.skip_if_exists )
        => ( /\ last'.result.success
             /\ last'.result.skipped_existing
             /\ last'.result.chunks_imported = 0
             /\ last'.result.npcs_extracted = 0 ) ]_vars

\* C2: the NPC collection, empty at the start, never holds a point whose
\* source_file is a document whose filename contains "adventure".
C2_NoAdventureNpcs ==
    \A point \in store[qdrant_collection_npcs] :
        ~Contains(Lower(PathName(point.source_file)),
                  <<"a","d","v","e","n","t","u","r","e">>)

\* an adventure-path document went through process_file with extraction
\* requested and enabled, and its chunks are in the store
C2_Witness ==
    /\ calls >= 1
    /\ enable_npc_extraction
    /\ last.extract_npcs
    /\ last.file_path = CrimsonThrone
    /\ last.result.success
    /\ last.chunks_written >= 1
    /\ store[qdrant_collection_npcs] = {}

\* C3: a call with extract_npcs=True for a document routed to the adventure
\* paths collection whose chunks were upserted returns npcs_extracted = 0
\* and skipped_npc_extraction = True.
C3_AdventureGatingResult ==
    ( /\ calls >= 1
      /\ last.extract_npcs
      /\ last.routed = qdrant_collection_adventurepaths
      /\ last.chunks_written >= 1 )
    => ( /\ last.result.npcs_extracted = 0
         /\ last.result.skipped_npc_extraction )

C3_Witness ==
    /\ calls >= 1
    /\ last.extract_npcs
    /\ last.file_path = SessionNotes
    /\ last.routed = qdrant_collection_adventurepaths
    /\ last.chunks_written >= 1
    /\ last.result.skipped_npc_extraction

\* C4: within a process_file call the extractor is invoked only if
\* extraction is enabled in the configuration, the caller passed
\* extract_npcs=True and the filename does not contain "adventure"; when one
\* of the three fails the extractor and the extraction service are not
\* called and the call writes no NPC point.
C4_ExtractionPrecondition ==
    calls >= 1 =>
        LET allThree ==
                /\ enable_npc_extraction
                /\ last.extract_npcs
                /\ ~Contains(Lower(PathName(last.file_path)),
                             <<"a","d","v","e","n","t","u","r","e">>)
        IN /\ InTrace(last, "extract") => allThree
           /\ ~allThree => /\ ~InTrace(last, "extract")
                           /\ ~InTrace(last, "service")
                           /\ ~InTrace(last, "upsert_npcs")
                           /\ last.npcs_written = 0

\* the extractor was invoked, in a call for which all three hold
C4_Witness ==
    /\ calls >= 1
    /\ InTrace(last, "extract")
    /\ enable_npc_extraction
    /\ last.extract_npcs
    /\ last.file_path = AdventureDirRulebook

\* C5: the collection process_file upserts a document's chunks to is the
\* adventure paths collection iff the lowercased filename contains
\* "adventure", and the rulebooks collection otherwise.
C5_OrchestratorRouting ==
    (calls >= 1 /\ last.routed # "") =>
        last.routed =
            IF Contains(Lower(PathName(last.file_path)),
                        <<"a","d","v","e","n","t","u","r","e">>)
            THEN qdrant_collection_adventurepaths
            ELSE qdrant_collection_rulebooks

\* C6: process_directory returns one ImportResult per enumerated file, in
\* enumeration order; a file for which a step of process_file raised has
\* success=False and the exception message as its error, and process_file
\* has been called for every file of the batch.
C6_BatchFailureIsolation ==
    /\ dirPc = "returned" =>
          /\ Len(results) = Len(files)
          /\ calls = Len(files)
          /\ \A i \in 1..Len(files) : results[i].file_path = files[i]
    /\ (results # <<>> /\ last.raised # NoError) =>
          /\ ~results[Len(results)].success
          /\ results[Len(results)].error = last.raised

\* a batch of two returned; the first file could not be read, the second
\* was imported
C6_Witness ==
    /\ dirPc = "returned"
    /\ Len(files) = 2
    /\ Len(results) = 2
    /\ ~results[1].success
    /\ results[1].error = "read failed"
    /\ results[2].success
    /\ results[2].chunks_imported >= 1

\* C7: if the chunk upsert succeeded and the extraction stage then fails,
\* process_file returns success=True, chunks_imported = the number of
\* chunks upserted, and npcs_extracted = 0.
C7_ExtractionFailureNonFatal ==
    ( /\ calls >= 1
      /\ last.chunks_written >= 1
      /\ InTrace(last, "extract")
      /\ last.raised # NoError )
    => ( /\ last.result.success
         /\ last.result.chunks_imported = last.chunks_written
         /\ last.result.npcs_extracted = 0 )

\* the number of NPC records the extractor accepts for the texts of the
\* call: candidate windows times the records the service returns per window
AcceptedNpcs(c) ==
    extract_npcs_from_chunks([i \in 1..Len(c.content) |-> Str(c.content[i])],
                             c.svc).npcs

\* C8: for a document whose filename does not contain "adventure", with
\* extraction enabled and requested and the chunks upserted, if the
\* extractor has k >= 1 accepted NPC records for the document then the call
\* adds exactly k points to the NPC collection and returns success=True
\* with npcs_extracted = k.
C8_NpcUpsert ==
    ( /\ calls >= 1
      /\ enable_npc_extraction
      /\ last.extract_npcs
      /\ ~Contains(Lower(PathName(last.file_path)),
                   <<"a","d","v","e","n","t","u","r","e">>)
      /\ last.chunks_written >= 1
      /\ AcceptedNpcs(last) >= 1 )
    => ( /\ last.result.success
         /\ last.result.npcs_extracted = AcceptedNpcs(last)
         /\ last.npcs_written = AcceptedNpcs(last) )

\* the 0-based indices of the chunks matching at least two of the ten patterns
QualifyingIndices ==
    {i \in 0..(Len(dChunks) - 1) :
        Cardinality(dChunks[i + 1].text \cap (1..10)) >= 2}

\* index i is a member of group g of the returned groups
MemberOf(i, g) == \E k \in 1..Len(dGroups[g]) : dGroups[g][k] = i

\* C9: two qualifying indices i < j with no qualifying index between them
\* are in the same group when j - i <= 2 and in different groups when
\* j - i >= 3.
C9_OneGapBridging ==
    dPc = "done" =>
        \A i, j \in QualifyingIndices :
            (i < j /\ ~\E m \in QualifyingIndices : i < m /\ m < j) =>
                LET together == \E g \in 1..Len(dGroups) : MemberOf(i, g) /\ MemberOf(j, g)
                IN /\ (j - i <= 2) => together
                   /\ (j - i >= 3) => ~together

\* C10: a chunk index is a member of some returned group iff the chunk
\* matches at least 2 of the ten patterns.
C10_CandidateQualification ==
    dPc = "done" =>
        \A i \in 0..(Len(dChunks) - 1) :
            (\E g \in 1..Len(dGroups) : MemberOf(i, g)) <=> (i \in QualifyingIndices)

\* the detector returned for a list with a chunk matching exactly one
\* pattern, left out, and a chunk matching two, grouped
C10_Witness ==
    /\ dPc = "done"
    /\ \E i \in 1..Len(dChunks) : Cardinality(dChunks[i].text) = 1
    /\ \E i \in 1..Len(dChunks) : Cardinality(dChunks[i].text) = 2
    /\ dGroups # <<>>

\* entry i of the response is in the list the extractor returned
InOutput(i) == \E k \in 1..Len(xReturn.npcs) : xReturn.npcs[k].name = i

\* C11: a candidate the service returned (an object carrying a numeric
\* confidence_score) is in the extractor's output iff its confidence_score
\* is >= the configured threshold: one at the threshold is kept, one below
\* it is dropped.
C11_ConfidenceFilter ==
    (xPc = "done" /\ xSvc.kind = "json") =>
        \A i \in 1..Len(xSvc.entries) :
            (xSvc.entries[i].obj /\ xSvc.entries[i].conf.t = "num") =>
                (InOutput(i) <=> xSvc.entries[i].conf.v >= xThreshold)

\* C18: for every outcome of the extraction service, _extract_npc_from_text
\* does not raise; it returns a list, which is empty when the call failed,
\* the content was not JSON, or an entry could not be converted.
C18_ExtractorFailSoft ==
    xPc = "done" =>
        /\ ~xReturn.raised
        /\ ( \/ xSvc.kind # "json"
             \/ xSvc.shape \in {"other", "wrapper_null"}
             \/ \E i \in 1..Len(xSvc.entries) :
                   ~xSvc.entries[i].obj \/ xSvc.entries[i].conf.t = "null" )
           => xReturn.npcs = <<>>

\* the function returned for a response whose second entry is not an object,
\* after an entry that passes the confidence check
C18_Witness ==
    /\ xPc = "done"
    /\ xSvc.kind = "json"
    /\ xSvc.shape = "list"
    /\ Len(xSvc.entries) = 2
    /\ xSvc.entries[1].obj
    /\ xSvc.entries[1].conf = Score10(9)
    /\ ~xSvc.entries[2].obj
    /\ xReturn = [raised |-> FALSE, npcs |-> <<>>]

\* C12: with chunk_size > 0 and 0 <= overlap < chunk_size, the cursor start
\* is strictly greater after every iteration of the loop of chunk_text than
\* it was before it, also when the break chosen lies at start + overlap.
C12_CursorProgress == cPrev >= 0 => cPrev < cStart

\* c is the text without its leading and trailing whitespace
IsStripped(text, c) ==
    IF \A k \in 1..Len(text) : text[k] \in Whitespace
    THEN c = <<>>
    ELSE \E a \in 1..Len(text), b \in 1..Len(text) :
            /\ a <= b
            /\ c = SubSeq(text, a, b)
            /\ text[a] \notin Whitespace
            /\ text[b] \notin Whitespace
            /\ \A k \in 1..Len(text) : (k < a \/ k > b) => text[k] \in Whitespace

\* C13, as stated: for any text shorter than chunk_size, chunk_text returns
\* exactly one chunk, the input stripped of leading and trailing whitespace.
C13_ShortTextAsStated ==
    (cPc = "done" /\ Len(cText) < cSize) =>
        /\ Len(cChunks) = 1
        /\ IsStripped(cText, cChunks[1])

\* C13, amended: for any text shorter than chunk_size that has a
\* non-whitespace character, chunk_text returns exactly one chunk, the
\* input stripped of leading and trailing whitespace; for an empty or
\* whitespace-only text it returns no chunk.
C13_ShortText ==
    (cPc = "done" /\ Len(cText) < cSize) =>
        IF \A k \in 1..Len(cText) : cText[k] \in Whitespace
        THEN cChunks = <<>>
        ELSE Len(cChunks) = 1 /\ IsStripped(cText, cChunks[1])

\* chunk_text returned for " a" with chunk_size 3: one chunk, "a"
C13_Witness ==
    /\ cPc = "done"
    /\ cText = <<" ", "a">>
    /\ cSize = 3
    /\ cChunks = << <<"a">> >>

\* C14: every chunk in the list has at most chunk_size characters and has a
\* character that is not whitespace.
C14_ChunkSizeBound ==
    \A i \in 1..Len(cChunks) :
        /\ Len(cChunks[i]) <= cSize
        /\ \E k \in 1..Len(cChunks[i]) : cChunks[i][k] \notin Whitespace

\* chunk_text returned two chunks or more, one of them of the full
\* chunk_size, for a text with a window that was all whitespace
C14_Witness ==
    /\ cPc = "done"
    /\ cSize = 1
    /\ cText = <<"a", "\n", "a">>
    /\ Len(cChunks) = 2
    /\ \E i \in 1..Len(cChunks) : Len(cChunks[i]) = cSize

RECURSIVE Concat(_)
Concat(ss) == IF ss = <<>> THEN <<>> ELSE Head(ss) \o Concat(Tail(ss))

\* the characters of s that are not whitespace, in order
NonWhitespace(s) == SelectSeq(s, LAMBDA ch : ch \notin Whitespace)

\* C15: with overlap = 0 each window starts where the one before it ended,
\* and the chunks so far, concatenated in order, have exactly the
\* non-whitespace characters of the text up to the cursor, in the same
\* order; on return that is the whole text.
C15_ZeroOverlapReconstruction ==
    cOverlap = 0 =>
        /\ cPrev >= 0 => (cPrev <= cEnd /\ cStart = cEnd)
        /\ NonWhitespace(Concat(cChunks)) = NonWhitespace(Slice(cText, 0, cStart))
        /\ cPc = "done" => cStart = Len(cText)

\* chunk_text returned "a." and "a" for "a. a" with chunk_size 3, overlap 0
C15_Witness ==
    /\ cPc = "done"
    /\ cOverlap = 0
    /\ cSize = 3
    /\ cText = <<"a", ".", " ", "a">>
    /\ cChunks = << <<"a", ".">>, <<"a">> >>

\* the identifiers of the points of a store
PointIds(st) == UNION { {pt.id : pt \in st[c]} : c \in Collections }

\* C16: process_file never removes or replaces a point of the store, and a
\* call with skip_if_exists=False whose chunk upsert went through adds one
\* point per chunk of the document for that path, each under an
\* identifier no point had before; k such calls for one path leave k*N
\* points.
C16_NoUpdateByKey ==
    [][ calls' = calls + 1 =>
          /\ \A c \in Collections : store[c] \subseteq store'[c]
          /\ ( /\ ~last'.skip_if_exists
               /\ InTrace(last', "upsert_chunks")
               /\ last'.raised # "upsert failed" )
             => LET added == store'[last'.routed] \ store[last'.routed]
                IN /\ Cardinality(added) = Len(last'.content)
                   /\ \A pt \in added : /\ pt.file_path = last'.file_path
                                        /\ pt.id \notin PointIds(store)
      ]_vars

\* the same one-chunk document imported twice with skip_if_exists=False:
\* two points for its path
C16_Witness ==
    /\ calls = 2
    /\ ~last.skip_if_exists
    /\ last.file_path = CoreRulebook
    /\ last.chunks_written = 1
    /\ Cardinality({pt \in store[qdrant_collection_rulebooks] :
                       pt.file_path = CoreRulebook}) = 2

\* C17: if the chunk upsert raises, process_file returns success=False with
\* the error message, the call has added no point to the store, and neither
\* the extractor nor the NPC upsert was invoked.
C17_StoreFailure ==
    (calls >= 1 /\ last.raised = "upsert failed") =>
        /\ ~last.result.success
        /\ last.result.error = "upsert failed"
        /\ last.result.chunks_imported = 0
        /\ last.chunks_written = 0
        /\ last.npcs_written = 0
        /\ ~InTrace(last, "extract")
        /\ ~InTrace(last, "service")
        /\ ~InTrace(last, "upsert_npcs")

\* the upsert of a non-empty rulebook raised in a call that asked for NPC
\* extraction, with extraction enabled
C17_Witness ==
    /\ calls >= 1
    /\ last.raised = "upsert failed"
    /\ InTrace(last, "upsert_chunks")
    /\ Len(last.content) >= 1
    /\ last.extract_npcs
    /\ enable_npc_extraction
    /\ last.file_path = CoreRulebook

\* C19: a CLI run whose configuration lacks the endpoint, the API key or
\* the deployment name, or has chunk_size <= 0, overlap < 0 or
\* overlap >= chunk_size, never constructs the ImportProcessor nor calls
\* into the pipeline, and ends with exit status 1.
C19_ConfigFailFast ==
    ( \/ cliConfig.azure_endpoint = ""
      \/ cliConfig.azure_api_key = ""
      \/ cliConfig.azure_deployment_name = ""
      \/ cliConfig.chunk_size <= 0
      \/ cliConfig.chunk_overlap < 0
      \/ cliConfig.chunk_overlap >= cliConfig.chunk_size )
    => /\ cliTrace = <<>>
       /\ cliPc \in {"idle", "start", "exited"}
       /\ cliPc = "exited" => cliExit = 1

\* a run ended with status 1 on a configuration whose only error is an
\* overlap equal to the chunk size
C19_Witness ==
    /\ cliPc = "exited"
    /\ cliExit = 1
    /\ cliConfig.azure_endpoint # ""
    /\ cliConfig.azure_api_key # ""
    /\ cliConfig.azure_deployment_name # ""
    /\ cliConfig.chunk_size = 2
    /\ cliConfig.chunk_overlap = 2
    /\ ~cliArgs.validate_only
    /\ cliArgs.input_path = "markdown_file"

\* the characters of the paths in the order sorted() gives Path objects:
\* code point order, with the separator first because a Path compares part
\* by part and a part that ends sorts before one that goes on
PathCharOrder == <<"/", " ", "-", ".">> \o UpperAlpha \o LowerAlpha

PathCharRank(c) == CHOOSE i \in 1..Len(PathCharOrder) : PathCharOrder[i] = c

\* p < q for two paths, as sorted() of find_markdown_files orders them
RECURSIVE PathLess(_, _)
PathLess(p, q) ==
    IF q = <<>> THEN FALSE
    ELSE IF p = <<>> THEN TRUE
    ELSE IF Head(p) = Head(q) THEN PathLess(Tail(p), Tail(q))
    ELSE PathCharRank(Head(p)) < PathCharRank(Head(q))

\* C20: the results process_directory returns are in sorted order of their
\* paths, whatever the order in which the file system enumerated the files.
C20_DeterministicBatchOrder ==
    dirPc = "returned" =>
        \A i, j \in 1..Len(results) :
            i < j => PathLess(results[i].file_path, results[j].file_path)

\* the place of a call in the order of the stages of process_file
StageRank(name) ==
    CASE name \in {"scroll", "scroll_raised"} -> 1
      [] name = "read" -> 2
      [] name = "embed" -> 3
      [] name = "upsert_chunks" -> 4
      [] name = "extract" -> 5
      [] name = "service" -> 6
      [] OTHER -> 7

\* the number of times the call made the named external call
TimesInTrace(c, name) == Cardinality({i \in 1..Len(c.trace) : c.trace[i] = name})

C26_ExistenceCheckError ==
    (calls >= 1 /\ last.skip_if_exists /\ InTrace(last, "scroll_raised")) =>
        /\ ~last.result.skipped_existing
        /\ InTrace(last, "read")
        /\ Len(last.content) >= 1 => InTrace(last, "embed")
        /\ (InTrace(last, "embed")
            /\ last.raised \notin {"embedding failed", "upsert failed"})
           => last.chunks_written = Len(last.content)

\* the query raised and the document was imported
C26_Witness ==
    /\ calls >= 1
    /\ last.skip_if_exists
    /\ InTrace(last, "scroll_raised")
    /\ last.result.success
    /\ last.chunks_written >= 1

\* C27: for every ImportResult process_file returns, chunks_imported is the
\* number of chunk points the call added to the store.
C27_ReportedChunkCount ==
    calls >= 1 => last.result.chunks_imported = last.chunks_written

\* C29: a successful, non-skipped call added its chunks to the collection
\* named by collection_used and to no other, added nothing but its NPC
\* points to the NPC collection, and has skipped_npc_extraction set exactly
\* when collection_used is the adventure paths collection.
C29_CategoryConsistency ==
    [][ (calls' = calls + 1 /\ last'.result.success /\ ~last'.result.skipped_existing) =>
          LET used == last'.result.collection_used
          IN /\ used \in {qdrant_collection_rulebooks, qdrant_collection_adventurepaths}
             /\ used = last'.routed
             /\ Cardinality(store'[used] \ store[used]) = Len(last'.content)
             /\ \A c \in Collections \ {used, qdrant_collection_npcs} :
                   store'[c] = store[c]
             /\ Cardinality(store'[qdrant_collection_npcs] \ store[qdrant_collection_npcs])
                   = last'.result.npcs_extracted
             /\ last'.result.skipped_npc_extraction
                   <=> (used = qdrant_collection_adventurepaths)
      ]_vars

\* an adventure path document imported: its chunk is in the adventure
\* paths collection and extraction was skipped
C29_Witness ==
    /\ calls >= 1
    /\ last.file_path = CrimsonThrone
    /\ last.result.success
    /\ ~last.result.skipped_existing
    /\ last.result.collection_used = qdrant_collection_adventurepaths
    /\ last.chunks_written >= 1
    /\ last.result.skipped_npc_extraction

\* the points of store st that carry file path p
PointsOf(st, p) ==
    {point \in st[qdrant_collection_rulebooks] \cup st[qdrant_collection_adventurepaths] :
        point.file_path = p}

\* both existence checks ran before either call went on to write
BothCheckedFirst ==
    /\ \A w \in Importers : rPc[w] = "done"
    /\ \A w \in Importers : rEarly[w]

\* C22: when two process_file(path, skip_if_exists=True) calls for one path
\* interleave so that both existence checks run before either upsert, no
\* call is skipped: each call that succeeds has written all its chunks, and
\* when both succeed the store holds both sets of records for the path
\* (2N for a document of N chunks).
C22_CheckThenWriteRace ==
    BothCheckedFirst =>
        /\ \A w \in Importers :
              rLast[w].result.success =>
                 /\ ~rLast[w].result.skipped_existing
                 /\ rLast[w].chunks_written = Len(rLast[w].content)
                 /\ rLast[w].chunks_written >= 1
        /\ (\A w \in Importers : rLast[w].result.success) =>
              Cardinality(PointsOf(store, rArgs.file_path))
                 = Len(rLast[1].content) + Len(rLast[2].content)

C22_Witness ==
    /\ BothCheckedFirst
    /\ \A w \in Importers : rLast[w].result.success
    /\ \A w \in Importers : InTrace(rLast[w], "scroll")
    /\ rLast[1].content = rLast[2].content
    /\ Len(rLast[1].content) >= 1
    /\ Cardinality(PointsOf(store, rArgs.file_path)) = 2 * Len(rLast[1].content)

\* C23: the text process_file hands to the chunker is the normalized text
\* (front matter removed, HTML comments removed, runs of three or more
\* newlines collapsed, trimmed), never the raw file content.
C23_NormalizeBeforeChunk ==
    nPc = "chunked" => nText = clean_markdown(nRaw)

\* the window of the last iteration before the break search: [cPrev, HardEnd)
HardEnd ==
    IF cPrev + cSize < Len(cText) THEN cPrev + cSize ELSE Len(cText)

\* offsets in [lo, hi) at which marker lies, wholly inside the range
MarkerAt(text, marker, lo, hi) ==
    {pos \in lo..(hi - Len(marker)) :
        \A k \in 1..Len(marker) : text[pos + k] = marker[k]}

\* offsets of the sentence terminators of all four kinds in [lo, hi)
Terminators(text, lo, hi) ==
    UNION {MarkerAt(text, sentence_ends[m], lo, hi) : m \in 1..Len(sentence_ends)}

\* the cut the last iteration should make: after the terminator nearest to
\* the window's end, else at the nearest space, else at the hard boundary
NearestCut ==
    LET lo == cPrev + cOverlap
        terminators == Terminators(cText, lo, HardEnd)
        spaces == MarkerAt(cText, <<" ">>, lo, HardEnd)
    IN IF terminators # {} THEN SetMax(terminators) + 1
       ELSE IF spaces # {} THEN SetMax(spaces)
       ELSE HardEnd

\* C24: when the window does not reach the end of the text, chunk_text cuts
\* at the sentence terminator nearest to the window's end among all four
\* kinds within [cursor + overlap, window end), else at the nearest space in
\* that range, else at the hard chunk_size boundary, and never before
\* cursor + overlap.
C24_BreakPointSelection ==
    (cPrev >= 0 /\ HardEnd < Len(cText)) =>
        /\ cEnd = NearestCut
        /\ cEnd >= cPrev + cOverlap

Occurrences(i) ==
    Cardinality({pl \in (1..Len(dGroups)) \X (1..Len(dChunks)) :
                    pl[2] <= Len(dGroups[pl[1]]) /\ dGroups[pl[1]][pl[2]] = i})

\* C28: the groups _identify_npc_chunks returns partition the qualifying
\* chunk indices: every group is non-empty and strictly increasing, every
\* index of an earlier group is smaller than every index of a later group,
\* every qualifying index occurs in exactly one place, and no other index
\* occurs at all.
C28_GroupsPartition ==
    dPc = "done" =>
        /\ \A g \in 1..Len(dGroups) : Len(dGroups[g]) >= 1
        /\ \A g \in 1..Len(dGroups) :
              \A k \in 1..(Len(dGroups[g]) - 1) : dGroups[g][k] < dGroups[g][k + 1]
        /\ \A g, h \in 1..Len(dGroups) :
              g < h => \A k \in 1..Len(dGroups[g]), m \in 1..Len(dGroups[h]) :
                          dGroups[g][k] < dGroups[h][m]
        /\ \A i \in 0..(Len(dChunks) - 1) :
              Occurrences(i) = IF i \in QualifyingIndices THEN 1 ELSE 0

C28_Witness ==
    /\ dPc = "done"
    /\ Len(dGroups) >= 2
    /\ \E g \in 1..Len(dGroups) : Len(dGroups[g]) >= 2
    /\ Cardinality(QualifyingIndices) >= 3

\* C30: under any sequence of Start, Stop and Load Config interleaved with
\* the background thread, at most one _run_import thread is running at any
\* moment.
C30_SingleImport == gThreads <= 1

====
